---------------------------- MODULE Spec2Model ----------------------------
(***************************************************************************)
(* A model of blutil.py, the command line tool that programs BL600         *)
(* "smartBASIC" modules over a serial AT-command link.                     *)
(*                                                                         *)
(* Bytes are numbers 0..255 and byte strings are sequences of them.  The   *)
(* serial line from the module to the host is the queue "wire": every      *)
(* byte in it is paired with the index (in "tx") of the command it was     *)
(* sent in reply to.  Timing is the environment's choice: a read returns   *)
(* the bytes that arrived before its deadline, any prefix of the queue.    *)
(***************************************************************************)
EXTENDS Integers, Sequences, FiniteSets, TLC

VARIABLES
    args,    \* the parsed command line, and the contents of the file it names
    pc,      \* the place main() has reached
    dtr,     \* the values setDTR was called with, in order
    tx,      \* the command frames written to the port, in order
    wire,    \* bytes the module has sent and the host has not read (tagged)
    last,    \* the outcome of the latest read of a reply
    io,      \* the latest port write: reply chosen, bytes in time, bytes read
    fpos,    \* upload's position in the file
    uwc,     \* whether the compiled .uwc file exists
    model,   \* whether device.model is set
    out,     \* what was printed, in order
    inc      \* the latest do_include: document, files, what it returned

vars == <<args, pc, dtr, tx, wire, last, io, fpos, uwc, model, out, inc>>

----------------------------------------------------------------------------
(* Byte values used on the wire and in file names.                         *)
TAB == 9
LF == 10
CR == 13
SPACE == 32
QUOTE == 34
DOT == 46
SLASH == 47
Ch0 == 48
Ch1 == 49
COLON == 58
ChA == 97
ChB == 98
ChH == 104
ChS == 115
ChU == 117
ChW == 119
ChC == 99
XFF == 255

\* b"00\r", the suffix writecmd and run wait for
OKTerm == <<Ch0, Ch0, CR>>
\* b'\n01\t', the prefix of an error reply
ErrPrefix == <<LF, Ch0, Ch1, TAB>>
\* chunklen of upload's chunks(f, 16)
ChunkLen == 16
\* the cap of get_devicename, [:24]
NameCap == 24

----------------------------------------------------------------------------
(* Bounds of the model.                                                    *)
\* longest free part of a device reply in the reader specification
MaxBody == 3
\* longest file uploaded in the upload specification
MaxFileLen == 33
\* most bytes the module has sent and the host has not read
MaxWire == 10
\* longest free part before the stem of a path given to --rm
MaxName == 2
\* most lines of a source document
MaxLines == 2
\* deepest nesting of calls of do_include (the interpreter's recursion limit)
MaxDepth == 6

----------------------------------------------------------------------------
(* Sequence helpers.                                                       *)
Min(a, b) == IF a < b THEN a ELSE b

\* s[a:b] of Python for 0 <= a, b (0-based, half open)
Slice(s, a, b) == SubSeq(s, a + 1, Min(b, Len(s)))

\* s[a:]
From(s, a) == SubSeq(s, a + 1, Len(s))

\* bytes.endswith
EndsWith(s, t) == /\ Len(s) >= Len(t)
                  /\ SubSeq(s, Len(s) - Len(t) + 1, Len(s)) = t

\* bytes.startswith
StartsWith(s, t) == /\ Len(s) >= Len(t)
                    /\ SubSeq(s, 1, Len(t)) = t

\* the bytes of a tagged byte string
Bytes(w) == [i \in 1..Len(w) |-> w[i][1]]

\* the commands whose reply bytes occur in a tagged byte string
Sources(w) == {w[i][2] : i \in 1..Len(w)}

\* a reply r of command number c, as it travels on the wire
Tag(r, c) == [i \in 1..Len(r) |-> <<r[i], c>>]

\* all sequences over S of length at most n
RECURSIVE SeqsUpTo(_, _)
SeqsUpTo(S, n) ==
    IF n = 0 THEN {<<>>}
    ELSE LET shorter == SeqsUpTo(S, n - 1)
         IN  shorter \cup {Append(s, x) : s \in shorter, x \in S}

----------------------------------------------------------------------------
(* str.strip() on ASCII text: the whitespace of Python's str.isspace.      *)
IsSpace(b) == b \in {9, 10, 11, 12, 13, 28, 29, 30, 31, 32}

RECURSIVE LStrip(_)
LStrip(s) == IF s # <<>> /\ IsSpace(Head(s)) THEN LStrip(Tail(s)) ELSE s

RECURSIVE RStrip(_)
RStrip(s) == IF s # <<>> /\ IsSpace(s[Len(s)])
             THEN RStrip(SubSeq(s, 1, Len(s) - 1)) ELSE s

Strip(s) == RStrip(LStrip(s))

\* str(response, "ascii") succeeds
IsAscii(s) == \A i \in 1..Len(s) : s[i] < 128

\* bytes.decode() (UTF-8) succeeds; of the bytes modelled only 0xff is not
\* ASCII, and 0xff occurs in no UTF-8 encoding
IsUtf8(s) == \A i \in 1..Len(s) : s[i] < 128

----------------------------------------------------------------------------
(* get_errordesc evaluates eval("0x" + code).  Over digits, letters,       *)
(* blanks and bytes that are not ASCII, the expression is a hexadecimal    *)
(* literal when code is one or more hex digits followed by blanks (space,  *)
(* tab, form feed, CR, LF) that do not end in an indented last line;       *)
(* anything else is a SyntaxError or IndentationError.  Operators, "_"     *)
(* and "#" are not among the byte values modelled.                         *)
IsHexDigit(b) == \/ b \in 48..57
                 \/ b \in 65..70
                 \/ b \in 97..102

HexDigitValue(b) == IF b \in 48..57 THEN b - 48
                    ELSE IF b \in 65..70 THEN b - 55
                    ELSE b - 87

IsEvalBlank(b) == b \in {9, 10, 12, 13, 32}

RECURSIVE RStripEval(_)
RStripEval(s) == IF s # <<>> /\ IsEvalBlank(s[Len(s)])
                 THEN RStripEval(SubSeq(s, 1, Len(s) - 1)) ELSE s

HexEvalOk(code) ==
    LET t == RStripEval(code)
        blanks == From(code, Len(t))
    IN  /\ t # <<>>
        /\ \A i \in 1..Len(t) : IsHexDigit(t[i])
        /\ \/ \A i \in 1..Len(blanks) : blanks[i] \notin {10, 13}
           \/ blanks[Len(blanks)] \in {10, 12, 13}

RECURSIVE HexValue(_)
HexValue(t) == IF t = <<>> THEN 0
               ELSE 16 * HexValue(SubSeq(t, 1, Len(t) - 1))
                    + HexDigitValue(t[Len(t)])

\* the number get_errordesc looks up in codes.csv: its description is the
\* quoted text of the first line that contains this number
get_errordesc(code) == HexValue(RStripEval(code))

----------------------------------------------------------------------------
(* File names: os.path.split, os.path.splitext, get_devicename.            *)

\* index of the last occurrence of b in s, 0 when there is none
LastIndexOf(s, b) ==
    LET hits == {i \in 1..Len(s) : s[i] = b}
    IN  IF hits = {} THEN 0 ELSE CHOOSE i \in hits : \A j \in hits : j <= i

\* index of the first occurrence of b in s, 0 when there is none
FirstIndexOf(s, b) ==
    LET hits == {i \in 1..Len(s) : s[i] = b}
    IN  IF hits = {} THEN 0 ELSE CHOOSE i \in hits : \A j \in hits : i <= j

\* os.path.split(p)[1]
Basename(p) == From(p, LastIndexOf(p, SLASH))

\* os.path.splitext(p): <<root, ext>>; the extension starts at the last dot
\* of the base name, unless only dots precede it there
splitext(p) ==
    LET sep == LastIndexOf(p, SLASH)
        dot == LastIndexOf(p, DOT)
        leading == \A i \in (sep + 1)..dot : p[i] = DOT
    IN  IF dot > sep /\ ~leading
        THEN <<SubSeq(p, 1, dot - 1), From(p, dot - 1)>>
        ELSE <<p, <<>>>>

ExtUwc == <<DOT, ChU, ChW, ChC>>
ExtSb == <<DOT, ChS, ChB>>

\* "%s.uwc" % parts[0]
to_uwc(p) == splitext(p)[1] \o ExtUwc

\* the characters re.sub(r'[:*?"<>|]', "", ...) removes
Reserved == {58, 42, 63, 34, 60, 62, 124}

RECURSIVE RemoveReserved(_)
RemoveReserved(s) ==
    IF s = <<>> THEN <<>>
    ELSE IF Head(s) \in Reserved THEN RemoveReserved(Tail(s))
    ELSE <<Head(s)>> \o RemoveReserved(Tail(s))

\* get_devicename without the [:24] of line 238
get_devicename_NoCap(filepath) ==
    LET filename == Basename(filepath)
        dot == FirstIndexOf(filename, DOT)
        stem == IF dot = 0 THEN filename ELSE SubSeq(filename, 1, dot - 1)
    IN  RemoveReserved(stem)

get_devicename(filepath) ==
    LET filename == Basename(filepath)
        dot == FirstIndexOf(filename, DOT)
        stem == IF dot = 0 THEN filename ELSE SubSeq(filename, 1, dot - 1)
    IN  Slice(RemoveReserved(stem), 0, NameCap)

----------------------------------------------------------------------------
(* Upload helpers: chunks(f, 16) and the "%02x" row of a chunk.            *)

\* the chunk f.read(chunklen) returns at file position pos
ReadChunk(data, pos, chunklen) == Slice(data, pos, pos + chunklen)

\* chunks(somefile, chunklen): the chunks yielded from position pos on
RECURSIVE chunks(_, _, _)
chunks(data, pos, chunklen) ==
    LET chunk == ReadChunk(data, pos, chunklen)
    IN  IF Len(chunk) = 0 THEN <<>>
        ELSE <<chunk>> \o chunks(data, pos + Len(chunk), chunklen)

\* one lower case hex digit, as a character
HexChar(d) == IF d < 10 THEN 48 + d ELSE 87 + d

\* HexRow with "%x" in place of "%02x": no leading zero
RECURSIVE HexRow_NoPad(_)
HexRow_NoPad(line) ==
    IF line = <<>> THEN <<>>
    ELSE (IF Head(line) < 16 THEN <<HexChar(Head(line))>>
          ELSE <<HexChar(Head(line) \div 16), HexChar(Head(line) % 16)>>)
         \o HexRow_NoPad(Tail(line))

\* "".join(["%02x" % x for x in line])
RECURSIVE HexRow(_)
HexRow(line) ==
    IF line = <<>> THEN <<>>
    ELSE <<HexChar(Head(line) \div 16), HexChar(Head(line) % 16)>>
         \o HexRow(Tail(line))

----------------------------------------------------------------------------
(* do_include, lines 193-216.  Text is a sequence of character codes; the  *)
(* files are a function from the text between the quotes of a directive    *)
(* to the contents of the file of that name in the source's directory.     *)

\* '#include'
Marker == <<35, 105, 110, 99, 108, 117, 100, 101>>

\* \s+ : the first position (0-based), at or after i, of no white space
RECURSIVE SkipSpace(_, _)
SkipSpace(file, i) ==
    IF i < Len(file) /\ IsSpace(file[i + 1]) THEN SkipSpace(file, i + 1)
    ELSE i

\* .* : the first position (0-based), at or after i, of a newline, or the end
RECURSIVE LineEnd(_, _)
LineEnd(file, i) ==
    IF i < Len(file) /\ file[i + 1] # LF THEN LineEnd(file, i + 1)
    ELSE i

NoMatch == [start |-> -1, end |-> -1, group |-> <<>>]

\* the match of r'^#include\s+"(.*)"$' (re.MULTILINE) that starts at i:
\* the marker at the start of a line, white space (newlines too), a quote,
\* and a quote that ends the line the first quote is in
MatchAt(file, i) ==
    LET q == SkipSpace(file, i + Len(Marker))
        e == LineEnd(file, q + 1)
    IN  IF /\ i = 0 \/ file[i] = LF
           /\ Slice(file, i, i + Len(Marker)) = Marker
           /\ q > i + Len(Marker)
           /\ q < Len(file)
           /\ file[q + 1] = QUOTE
           /\ e - 1 > q
           /\ file[e] = QUOTE
        THEN [start |-> i, end |-> e, group |-> Slice(file, q + 1, e - 1)]
        ELSE NoMatch

\* pattern.search(file): the leftmost match
Search(file) ==
    LET hits == {i \in 0..Len(file) : MatchAt(file, i) # NoMatch}
    IN  IF hits = {} THEN NoMatch
        ELSE MatchAt(file, CHOOSE i \in hits : \A j \in hits : i <= j)

\* file.replace('#include', ""): occurrences are removed left to right
RECURSIVE RemoveMarker(_)
RemoveMarker(s) ==
    IF s = <<>> THEN <<>>
    ELSE IF StartsWith(s, Marker) THEN RemoveMarker(From(s, Len(Marker)))
    ELSE <<Head(s)>> \o RemoveMarker(Tail(s))

\* what a call of do_include comes to: "ok" with the document returned,
\* "missing" (RuntimeError, line 203) or "RecursionError"; reads lists the
\* files opened, in order
Returned(status, doc, reads) ==
    [status |-> status, doc |-> doc, reads |-> reads]

\* do_include that removes the marker in its terminal case too
RECURSIVE do_include_StripsAlways(_, _, _)
do_include_StripsAlways(fs, file, depth) ==
    IF depth > MaxDepth THEN Returned("RecursionError", <<>>, <<>>)
    ELSE
    LET match == Search(file)
    IN  IF match = NoMatch THEN Returned("ok", RemoveMarker(file), <<>>)
        ELSE IF match.group \notin DOMAIN fs
        THEN Returned("missing", <<>>, <<>>)
        ELSE
        LET file_data == do_include_StripsAlways(fs, fs[match.group],
                                                 depth + 1)
            opened == <<match.group>> \o file_data.reads
        IN  IF file_data.status # "ok"
            THEN Returned(file_data.status, <<>>, opened)
            ELSE
            LET joined == Slice(file, 0, match.start) \o <<LF>>
                          \o file_data.doc \o <<LF>>
                          \o From(file, match.end)
                again == do_include_StripsAlways(fs, joined, depth + 1)
            IN  IF again.status # "ok"
                THEN Returned(again.status, <<>>, opened \o again.reads)
                ELSE Returned("ok", RemoveMarker(again.doc),
                              opened \o again.reads)

RECURSIVE do_include(_, _, _)
do_include(fs, file, depth) ==
    IF depth > MaxDepth THEN Returned("RecursionError", <<>>, <<>>)
    ELSE
    LET match == Search(file)
    IN  IF match = NoMatch THEN Returned("ok", file, <<>>)
        ELSE IF match.group \notin DOMAIN fs
        THEN Returned("missing", <<>>, <<>>)
        ELSE
        LET file_data == do_include(fs, fs[match.group], depth + 1)
            opened == <<match.group>> \o file_data.reads
        IN  IF file_data.status # "ok"
            THEN Returned(file_data.status, <<>>, opened)
            ELSE
            LET joined == Slice(file, 0, match.start) \o <<LF>>
                          \o file_data.doc \o <<LF>>
                          \o From(file, match.end)
                again == do_include(fs, joined, depth + 1)
            IN  IF again.status # "ok"
                THEN Returned(again.status, <<>>, opened \o again.reads)
                ELSE Returned("ok", RemoveMarker(again.doc),
                              opened \o again.reads)

\* no do_include yet
NoInc == [file |-> <<>>, files |-> <<>>, ret |-> Returned("none", <<>>, <<>>)]

----------------------------------------------------------------------------
(* Commands.  A command is the args string of writecmd: the verb is its    *)
(* fixed text and arg the text substituted into it.                        *)
Cmd(verb, arg) == [verb |-> verb, arg |-> arg]

NoCmd == Cmd("none", <<>>)

\* the result of a writecmd that has not read a reply
NoResult == [kind |-> "None", cmd |-> NoCmd, text |-> <<>>, desc |-> 0]

----------------------------------------------------------------------------
(* writecmd, lines 55-69.                                                  *)

\* the read loop: avail holds the (tagged) bytes that arrive before the
\* deadline; the loop stops at the first moment the response ends in "00\r"
RECURSIVE ReadLoop(_, _)
ReadLoop(response, avail) ==
    IF EndsWith(Bytes(response), OKTerm) \/ avail = <<>>
    THEN response
    ELSE ReadLoop(Append(response, Head(avail)), Tail(avail))

\* Classify without the test of line 62: an empty response falls through to
\* the last branch
Classify_NoEmptyTest(a, response) ==
    IF EndsWith(response, OKTerm)
    THEN IF IsAscii(response)
         THEN [kind |-> "Success", cmd |-> NoCmd,
               text |-> Strip(SubSeq(response, 1, Len(response) - 3)),
               desc |-> 0]
         ELSE [kind |-> "Crash", cmd |-> NoCmd, text |-> response, desc |-> 0]
    ELSE IF Len(response) > 4 /\ Slice(response, 0, 4) = ErrPrefix
    THEN LET errorcode == SubSeq(response, 5, Len(response) - 1)
         IN  IF IsUtf8(From(response, 4)) /\ HexEvalOk(errorcode)
             THEN [kind |-> "DeviceError", cmd |-> NoCmd,
                   text |-> errorcode, desc |-> get_errordesc(errorcode)]
             ELSE [kind |-> "Crash", cmd |-> NoCmd,
                   text |-> response, desc |-> 0]
    ELSE [kind |-> "Malformed", cmd |-> a, text |-> response, desc |-> 0]

\* Classify with a DeviceError that names the command that failed
Classify_ErrorNamesCommand(a, response) ==
    IF EndsWith(response, OKTerm)
    THEN IF IsAscii(response)
         THEN [kind |-> "Success", cmd |-> NoCmd,
               text |-> Strip(SubSeq(response, 1, Len(response) - 3)),
               desc |-> 0]
         ELSE [kind |-> "Crash", cmd |-> NoCmd, text |-> response, desc |-> 0]
    ELSE IF Len(response) = 0
    THEN [kind |-> "NoResponse", cmd |-> a, text |-> <<>>, desc |-> 0]
    ELSE IF Len(response) > 4 /\ Slice(response, 0, 4) = ErrPrefix
    THEN LET errorcode == SubSeq(response, 5, Len(response) - 1)
         IN  IF IsUtf8(From(response, 4)) /\ HexEvalOk(errorcode)
             THEN [kind |-> "DeviceError", cmd |-> a,
                   text |-> errorcode, desc |-> get_errordesc(errorcode)]
             ELSE [kind |-> "Crash", cmd |-> NoCmd,
                   text |-> response, desc |-> 0]
    ELSE [kind |-> "Malformed", cmd |-> a, text |-> response, desc |-> 0]

\* what writecmd does with the response it accumulated
Classify(a, response) ==
    IF EndsWith(response, OKTerm)
    THEN IF IsAscii(response)
         THEN [kind |-> "Success", cmd |-> NoCmd,
               text |-> Strip(SubSeq(response, 1, Len(response) - 3)),
               desc |-> 0]
         ELSE [kind |-> "Crash", cmd |-> NoCmd, text |-> response, desc |-> 0]
    ELSE IF Len(response) = 0
    THEN [kind |-> "NoResponse", cmd |-> a, text |-> <<>>, desc |-> 0]
    ELSE IF Len(response) > 4 /\ Slice(response, 0, 4) = ErrPrefix
    THEN LET errorcode == SubSeq(response, 5, Len(response) - 1)
         IN  IF IsUtf8(From(response, 4)) /\ HexEvalOk(errorcode)
             THEN [kind |-> "DeviceError", cmd |-> NoCmd,
                   text |-> errorcode, desc |-> get_errordesc(errorcode)]
             ELSE [kind |-> "Crash", cmd |-> NoCmd,
                   text |-> response, desc |-> 0]
    ELSE [kind |-> "Malformed", cmd |-> a, text |-> response, desc |-> 0]

\* the kinds of failure writecmd reports as RuntimeError
Failures == {"NoResponse", "DeviceError", "Malformed"}

----------------------------------------------------------------------------
(* The command line.                                                       *)

\* the options of cmd_arg, lines 20-33
Ops == {"compile", "load", "run", "ls", "rm", "format", "at", "listen"}

\* a.sb, a.uwc, b
Paths == {<<ChA, DOT, ChS, ChB>>,
          <<ChA, DOT, ChU, ChW, ChC>>,
          <<ChB>>}

\* the file of n bytes that is uploaded
FileOf(n) == [i \in 1..n |-> (37 * i + 11) % 256]

\* the files of the driver specification: empty, and 16 + 4 bytes
Files == {FileOf(0), FileOf(ChunkLen + 4)}

\* the files of the upload specification
AllFiles == {FileOf(n) : n \in 0..MaxFileLen}

\* lines 269-279: run preloads a .sb or .uwc file, load precompiles a .sb file
DoRun(a) == a.op = "run"

\* DoLoad without lines 270-273: run does not preload its file
DoLoad_NoPreload(a) == a.op = "load"

DoLoad(a) == \/ a.op = "load"
             \/ /\ a.op = "run"
                /\ splitext(a.path)[2] \in {ExtUwc, ExtSb}

DoCompile(a) == \/ a.op = "compile"
                \/ /\ DoLoad(a)
                   /\ splitext(a.path)[2] = ExtSb

\* lines 303-319: the order in which main performs what was asked
Stages == <<"ls", "rm", "format", "compile", "load", "run", "at", "listen">>

StageOn(a, s) ==
    CASE s = "compile" -> DoCompile(a)
      [] s = "load" -> DoLoad(a)
      [] s = "run" -> DoRun(a)
      [] OTHER -> a.op = s

StagePc(s) ==
    CASE s = "ls" -> "list"
      [] s = "rm" -> "delete"
      [] s = "format" -> "format_clear"
      [] s = "compile" -> "compile"
      [] s = "load" -> "upload_del"
      [] s = "run" -> "run_probe"
      [] s = "at" -> "at"
      [] s = "listen" -> "listen"

\* where main goes after stage number k (0: after the model is settled)
NextStage(a, k) ==
    LET later == {i \in (k + 1)..Len(Stages) : StageOn(a, Stages[i])}
    IN  IF later = {} THEN "done"
        ELSE StagePc(Stages[CHOOSE i \in later : \A j \in later : i <= j])

\* the file upload opens, lines 139-141
UploadPath(a) == IF splitext(a.path)[2] # ExtUwc THEN to_uwc(a.path)
                 ELSE a.path

----------------------------------------------------------------------------
(* What the module may answer.                                             *)

\* byte values of replies: '0' '1' CR LF TAB 'h' 0xff
Alphabet == {Ch0, Ch1, CR, LF, TAB, ChH, XFF}

\* the replies of the reader specification: any short byte string, alone or
\* after the error prefix, alone or before a CR or the success terminator
AllReplies ==
    {pre \o body \o suf : pre \in {<<>>, ErrPrefix},
                          body \in SeqsUpTo(Alphabet, MaxBody),
                          suf \in {<<>>, <<CR>>, OKTerm}}

\* the replies of the driver specification: silence, success, success with
\* a payload, a payload that contains "00\r", error 1, an error code that
\* ends in 00, an error code that is no number, a byte that is not ASCII
DeviceReplies ==
    {<<>>,
     <<LF, Ch0, Ch0, CR>>,
     <<ChH, CR, LF, Ch0, Ch0, CR>>,
     <<Ch0, Ch0, CR, LF, Ch0, Ch0, CR>>,
     ErrPrefix \o <<Ch1, CR>>,
     ErrPrefix \o <<Ch0, Ch0, CR>>,
     ErrPrefix \o <<ChH, CR>>,
     <<XFF>>}

\* the files beside the source: a and b exist, c does not
NameA == <<ChA>>

NameB == <<ChB>>

NameC == <<ChC>>

\* '#include "n"'
IncludeLine(n) == Marker \o <<SPACE, QUOTE>> \o n \o <<QUOTE>>

\* 'h'
PlainLine == <<ChH>>

\* 'h #include': the marker where no directive is
MarkedLine == <<ChH, SPACE>> \o Marker

\* '#inc#includelude "a"': no directive, and one once the marker is removed
GluedLine == SubSeq(Marker, 1, 4) \o Marker \o SubSeq(Marker, 5, 8)
             \o <<SPACE, QUOTE>> \o NameA \o <<QUOTE>>

DocLines == {IncludeLine(NameA), IncludeLine(NameB), IncludeLine(NameC),
             PlainLine, MarkedLine, GluedLine}

\* the texts of at most n lines of L, a newline between two lines
RECURSIVE DocsUpTo(_, _)
DocsUpTo(L, n) ==
    IF n = 0 THEN {<<>>}
    ELSE LET shorter == DocsUpTo(L, n - 1)
         IN  shorter \cup {IF d = <<>> THEN l ELSE d \o <<LF>> \o l :
                             d \in shorter, l \in L}

\* the source documents and the file sets of the include specification
Docs == DocsUpTo(DocLines, MaxLines)

FileSets == [{NameA, NameB} -> DocsUpTo(DocLines, 1)]

\* those of the driver specification: no directive, one directive, a
\* missing file; files without directives, a file that includes itself
DriverDocs == {PlainLine, IncludeLine(NameA), IncludeLine(NameC)}

DriverFileSets == {[n \in {NameA, NameB} |-> PlainLine],
                   [n \in {NameA, NameB} |-> IncludeLine(NameA)]}

----------------------------------------------------------------------------
(* The state in which main starts, for a command line parse_args accepts.  *)

NoIo == [reply |-> <<>>, got |-> <<>>, residue |-> <<>>]

InitWith(ops, files) ==
    /\ args \in {a \in [op : ops, path : Paths \cup {<<>>},
                       data : files \cup {<<>>},
                       no_dtr : BOOLEAN, port : BOOLEAN] :
                   /\ (a.path # <<>>) <=> (a.op \in {"compile", "load", "run", "rm"})
                   /\ (a.data # <<>>) => DoLoad(a)}
    /\ pc = "test_wine"
    /\ dtr = <<>>
    /\ tx = <<>>
    /\ wire = <<>>
    /\ last = NoResult
    /\ io = NoIo
    /\ fpos = 0
    /\ uwc \in {u \in BOOLEAN : u \/ DoLoad(args)}
    /\ model = FALSE
    /\ out = <<>>
    /\ inc = NoInc

Init == InitWith(Ops, Files)

----------------------------------------------------------------------------
(* WriteCmd with a retry: a command that failed is sent again.             *)
WriteCmd_Retry(a, expect_response, R, next) ==
    IF ~args.port
    THEN /\ pc' = "crash"
         /\ UNCHANGED <<tx, wire, last, io>>
    ELSE \E r \in {x \in R : Len(wire) + Len(x) <= MaxWire} :
           LET line == wire \o Tag(r, Len(tx) + 1)
           IN  \E n \in 0..Len(line) :
                 LET response == IF expect_response
                                 THEN ReadLoop(<<>>, SubSeq(line, 1, n))
                                 ELSE <<>>
                     outcome == IF expect_response
                                THEN Classify(a, Bytes(response))
                                ELSE NoResult
                 IN  /\ n = 0 \/ expect_response
                     /\ tx' = Append(tx, [cmd |-> a, expect |-> expect_response])
                     /\ wire' = From(line, Len(response))
                     /\ last' = outcome
                     /\ io' = [reply |-> r, got |-> response,
                               residue |-> wire]
                     /\ pc' = IF outcome.kind \in Failures THEN pc
                              ELSE IF outcome.kind = "Crash" THEN "crash"
                              ELSE next

(* writecmd, lines 50-69: the frame is written, the module chooses its     *)
(* reply r, n bytes of the line arrive before the deadline, and the        *)
(* outcome decides where main continues.  Without a port (-m was given)    *)
(* self.port raises AttributeError.                                        *)
WriteCmd(a, expect_response, R, next) ==
    IF ~args.port
    THEN /\ pc' = "crash"
         /\ UNCHANGED <<tx, wire, last, io>>
    ELSE \E r \in {x \in R : Len(wire) + Len(x) <= MaxWire} :
           LET line == wire \o Tag(r, Len(tx) + 1)
           IN  \E n \in 0..Len(line) :
                 LET response == IF expect_response
                                 THEN ReadLoop(<<>>, SubSeq(line, 1, n))
                                 ELSE <<>>
                     outcome == IF expect_response
                                THEN Classify(a, Bytes(response))
                                ELSE NoResult
                 IN  /\ n = 0 \/ expect_response
                     /\ tx' = Append(tx, [cmd |-> a, expect |-> expect_response])
                     /\ wire' = From(line, Len(response))
                     /\ last' = outcome
                     /\ io' = [reply |-> r, got |-> response,
                               residue |-> wire]
                     /\ pc' = IF outcome.kind \in Failures THEN "exit2"
                              ELSE IF outcome.kind = "Crash" THEN "crash"
                              ELSE next

\* print: "before" is printed ahead of the command, "after" once it succeeded
Printed(before, after) ==
    out' = out \o before
               \o (IF pc' \in {"exit2", "crash"} THEN <<>> ELSE after)

----------------------------------------------------------------------------
(* main, lines 264-267: the check of wine and the opening of the port.     *)

\* test_wine, lines 241-250 (skipped on Windows): when "wine --version"
\* cannot be run or fails, a line is printed and sys.exit(2) is called
TestWine ==
    /\ pc = "test_wine"
    /\ \E ok \in BOOLEAN :
         IF ok
         THEN /\ pc' = "construct"
              /\ out' = out
         ELSE /\ pc' = "sysexit2"
              /\ out' = Append(out, "Wine execution failed.")
    /\ UNCHANGED <<inc, args, dtr, tx, wire, last, io, fpos, uwc, model>>

\* BLDevice(args), lines 46-48: without -m the port is opened, and
\* serial.Serial may raise SerialException, which ends main with status 3
Construct ==
    /\ pc = "construct"
    /\ \E opened \in BOOLEAN :
         pc' = IF args.port /\ ~opened THEN "exit3" ELSE "reset"
    /\ UNCHANGED <<inc, args, dtr, tx, wire, last, io, fpos, uwc, model, out>>

----------------------------------------------------------------------------
(* main, lines 289-301.                                                    *)

\* Reset with the two setDTR calls swapped: high, then low
Reset_HighLow ==
    /\ pc = "reset"
    /\ IF /\ \/ DoLoad(args) \/ DoRun(args)
             \/ args.op \in {"rm", "ls", "format"}
             \/ args.port
          /\ ~args.no_dtr
       THEN /\ out' = Append(out, "Resetting board via DTR...")
            /\ IF args.port
               THEN /\ dtr' = dtr \o <<TRUE, FALSE>>
                    /\ pc' = "model"
               ELSE /\ pc' = "crash"
                    /\ dtr' = dtr
       ELSE /\ pc' = "model"
            /\ UNCHANGED <<dtr, out>>
    /\ UNCHANGED <<inc, args, tx, wire, last, io, fpos, uwc, model>>

\* the DTR reset: low, then high
Reset ==
    /\ pc = "reset"
    /\ IF /\ \/ DoLoad(args) \/ DoRun(args)
             \/ args.op \in {"rm", "ls", "format"}
             \/ args.port
          /\ ~args.no_dtr
       THEN /\ out' = Append(out, "Resetting board via DTR...")
            /\ IF args.port
               THEN /\ dtr' = dtr \o <<FALSE, TRUE>>
                    /\ pc' = "model"
               ELSE /\ pc' = "crash"
                    /\ dtr' = dtr
       ELSE /\ pc' = "model"
            /\ UNCHANGED <<dtr, out>>
    /\ UNCHANGED <<inc, args, tx, wire, last, io, fpos, uwc, model>>

\* SetModel without line 298: the model is never detected
SetModel_NoDetect ==
    /\ pc = "model"
    /\ IF ~args.port
       THEN /\ model' = TRUE
            /\ pc' = "announce"
       ELSE /\ model' = model
            /\ pc' = "announce"
    /\ UNCHANGED <<inc, args, dtr, tx, wire, last, io, fpos, uwc, out>>

\* device.model is the -m argument, or is detected when compile is due
SetModel ==
    /\ pc = "model"
    /\ IF ~args.port
       THEN /\ model' = TRUE
            /\ pc' = "announce"
       ELSE /\ model' = model
            /\ pc' = IF DoCompile(args) THEN "detect_model"
                     ELSE "announce"
    /\ UNCHANGED <<inc, args, dtr, tx, wire, last, io, fpos, uwc, out>>

\* detect_model, lines 74-78: read_param(0), then read_param(13)
DetectModel ==
    /\ pc = "detect_model"
    /\ WriteCmd(Cmd("I 0", <<>>), TRUE, DeviceReplies, "detect_revision")
    /\ UNCHANGED <<inc, args, dtr, fpos, uwc, model, out>>

DetectRevision ==
    /\ pc = "detect_revision"
    /\ WriteCmd(Cmd("I 13", <<>>), TRUE, DeviceReplies, "announce")
    /\ model' = (pc' \notin {"exit2", "crash"})
    /\ Printed(<<>>, <<"Detected model">>)
    /\ UNCHANGED <<inc, args, dtr, fpos, uwc>>

\* the line of lines 300-301, "Performing %s for %s...": the operations due
PerformingLine(a) ==
    IF DoRun(a)
    THEN IF DoCompile(a) THEN "Performing compile, load, run"
         ELSE IF DoLoad(a) THEN "Performing load, run"
         ELSE "Performing run"
    ELSE IF DoLoad(a)
    THEN IF DoCompile(a) THEN "Performing compile, load"
         ELSE "Performing load"
    ELSE "Performing compile"

\* lines 300-301: the operations are announced when there is one due
Announce ==
    /\ pc = "announce"
    /\ out' = IF DoCompile(args) \/ DoLoad(args) \/ DoRun(args)
              THEN Append(out, PerformingLine(args))
              ELSE out
    /\ pc' = NextStage(args, 0)
    /\ UNCHANGED <<inc, args, dtr, tx, wire, last, io, fpos, uwc, model>>

----------------------------------------------------------------------------
(* list, delete and the raw AT command.                                    *)

\* list, lines 172-175
List(R) ==
    /\ pc = "list"
    /\ WriteCmd(Cmd("+DIR", <<>>), TRUE, R, NextStage(args, 1))
    /\ Printed(<<"Listing files...">>, <<"listing">>)
    /\ UNCHANGED <<inc, args, dtr, fpos, uwc, model>>

\* delete, lines 177-181
Delete(R) ==
    /\ pc = "delete"
    /\ WriteCmd(Cmd("+DEL", get_devicename(args.path)), TRUE, R,
                NextStage(args, 2))
    /\ Printed(<<"Removing">>, <<"Deleted.">>)
    /\ UNCHANGED <<inc, args, dtr, fpos, uwc, model>>

\* lines 315-317
At(R) ==
    /\ pc = "at"
    /\ WriteCmd(Cmd("at", <<>>), TRUE, R, NextStage(args, 7))
    /\ Printed(<<>>, <<"reply", "Command completed">>)
    /\ UNCHANGED <<inc, args, dtr, fpos, uwc, model>>

----------------------------------------------------------------------------
(* format, lines 183-191.                                                  *)

\* FormatClear that does not wait for the reply of the clear command
FormatClear_NoWait ==
    /\ pc = "format_clear"
    /\ WriteCmd(Cmd("Z", <<>>), FALSE, DeviceReplies, "format_probe")
    /\ Printed(<<"Formatting BL600...">>, <<>>)
    /\ UNCHANGED <<inc, args, dtr, fpos, uwc, model>>

FormatClear ==
    /\ pc = "format_clear"
    /\ WriteCmd(Cmd("Z", <<>>), TRUE, DeviceReplies, "format_probe")
    /\ Printed(<<"Formatting BL600...">>, <<>>)
    /\ UNCHANGED <<inc, args, dtr, fpos, uwc, model>>

FormatProbe ==
    /\ pc = "format_probe"
    /\ WriteCmd(Cmd("", <<>>), TRUE, DeviceReplies, "format_reset")
    /\ UNCHANGED <<inc, args, dtr, fpos, uwc, model, out>>

FormatReset ==
    /\ pc = "format_reset"
    /\ WriteCmd(Cmd("&F 1", <<>>), FALSE, DeviceReplies, "format_drain")
    /\ UNCHANGED <<inc, args, dtr, fpos, uwc, model, out>>

\* time.sleep(0.2); self.port.read(1024): what has arrived is discarded
FormatDrain ==
    /\ pc = "format_drain"
    /\ \E n \in 0..Min(Len(wire), 1024) : wire' = From(wire, n)
    /\ pc' = "format_reprobe"
    /\ out' = Append(out, "Format complete. Reconnecting...")
    /\ UNCHANGED <<inc, args, dtr, tx, last, io, fpos, uwc, model>>

FormatReprobe ==
    /\ pc = "format_reprobe"
    /\ WriteCmd(Cmd("", <<>>), TRUE, DeviceReplies, NextStage(args, 3))
    /\ UNCHANGED <<inc, args, dtr, fpos, uwc, model, out>>

----------------------------------------------------------------------------
(* compile, lines 80-97, and online_compile, lines 99-133.  The compiler,  *)
(* the files and the web service are the environment's.                    *)

CompileError == [kind |-> "CompileError", cmd |-> NoCmd, text |-> <<>>,
                 desc |-> 0]

Compile ==
    /\ pc = "compile"
    /\ \E outcome \in {"missing", "failed", "compiled", "online"} :
         /\ pc' = CASE outcome = "compiled" -> NextStage(args, 4)
                    [] outcome = "online" -> "online_devices"
                    [] OTHER -> "exit2"
         /\ uwc' = IF outcome = "compiled" THEN TRUE ELSE uwc
         /\ last' = IF outcome \in {"missing", "failed"} THEN CompileError
                    ELSE last
         /\ out' = out \o CASE outcome = "failed" -> <<"Compiling">>
                            [] outcome = "compiled" ->
                                 <<"Compiling", "Compilation success">>
                            [] OTHER -> <<>>
    /\ UNCHANGED <<inc, args, dtr, tx, wire, io, fpos, model>>

\* lines 99-106: the online compiler is announced, then devices.json is
\* opened and parsed; without the file, or with one that is not JSON, open
\* or json.load raises
OnlineDevices ==
    /\ pc = "online_devices"
    /\ out' = Append(out, "Using the online compiler")
    /\ \E loaded \in BOOLEAN : pc' = IF loaded THEN "online_model" ELSE "crash"
    /\ UNCHANGED <<inc, args, dtr, tx, wire, last, io, fpos, uwc, model>>

OnlineModel ==
    /\ pc = "online_model"
    /\ WriteCmd(Cmd("I 0", <<>>), TRUE, DeviceReplies, "online_firmware")
    /\ UNCHANGED <<inc, args, dtr, fpos, uwc, model, out>>

OnlineFirmware ==
    /\ pc = "online_firmware"
    /\ WriteCmd(Cmd("I 3", <<>>), TRUE, DeviceReplies, "online_lookup")
    /\ UNCHANGED <<inc, args, dtr, fpos, uwc, model, out>>

\* lines 110-112: the model and the firmware code are looked up in
\* devices.json; a module that is not listed there raises KeyError
OnlineLookup ==
    /\ pc = "online_lookup"
    /\ \E listed \in BOOLEAN :
         pc' = IF listed THEN "online_include" ELSE "crash"
    /\ UNCHANGED <<inc, args, dtr, tx, wire, last, io, fpos, uwc, model, out>>

\* lines 114-118: the source is read and its includes are expanded
OnlineInclude(docs, filesets) ==
    /\ pc = "online_include"
    /\ \E file \in docs, fs \in filesets :
         LET ret == do_include(fs, file, 1)
         IN  /\ inc' = [file |-> file, files |-> fs, ret |-> ret]
             /\ pc' = CASE ret.status = "ok" -> "online_post"
                        [] ret.status = "missing" -> "exit2"
                        [] OTHER -> "crash"
             /\ last' = IF ret.status = "missing" THEN CompileError
                        ELSE last
    /\ UNCHANGED <<args, dtr, tx, wire, io, fpos, uwc, model, out>>

OnlinePost ==
    /\ pc = "online_post"
    /\ \E outcome \in {"compiled", "failed", "crash"} :
         /\ pc' = CASE outcome = "compiled" -> NextStage(args, 4)
                    [] outcome = "failed" -> "exit2"
                    [] OTHER -> "crash"
         /\ uwc' = IF outcome = "compiled" THEN TRUE ELSE uwc
         /\ last' = IF outcome = "failed" THEN CompileError ELSE last
    /\ UNCHANGED <<inc, args, dtr, tx, wire, io, fpos, model, out>>

----------------------------------------------------------------------------
(* upload, lines 135-151.                                                  *)

\* UploadDelete and UploadCreate swapped: the file is created first
UploadDelete_CreatesFirst ==
    /\ pc = "upload_del"
    /\ WriteCmd(Cmd("+FOW", get_devicename(UploadPath(args))), TRUE,
                DeviceReplies, "upload_create")
    /\ Printed(<<"Uploading">>, <<>>)
    /\ UNCHANGED <<inc, args, dtr, fpos, uwc, model>>

\* UploadDelete inside try/except: a DeviceError of the delete is ignored
UploadDelete_IgnoresError ==
    /\ pc = "upload_del"
    /\ IF ~args.port
       THEN /\ pc' = "crash"
            /\ UNCHANGED <<tx, wire, last, io>>
       ELSE \E r \in {x \in DeviceReplies : Len(wire) + Len(x) <= MaxWire} :
              LET a == Cmd("+DEL +", get_devicename(UploadPath(args)))
                  line == wire \o Tag(r, Len(tx) + 1)
              IN  \E n \in 0..Len(line) :
                    LET response == ReadLoop(<<>>, SubSeq(line, 1, n))
                        outcome == Classify(a, Bytes(response))
                    IN  /\ tx' = Append(tx, [cmd |-> a, expect |-> TRUE])
                        /\ wire' = From(line, Len(response))
                        /\ last' = outcome
                        /\ io' = [reply |-> r, got |-> response,
                                  residue |-> wire]
                        /\ pc' = IF outcome.kind = "DeviceError"
                                 THEN "upload_create"
                                 ELSE IF outcome.kind \in Failures
                                 THEN "exit2"
                                 ELSE IF outcome.kind = "Crash" THEN "crash"
                                 ELSE "upload_create"
    /\ Printed(<<"Uploading">>, <<>>)
    /\ UNCHANGED <<inc, args, dtr, fpos, uwc, model>>

UploadDelete ==
    /\ pc = "upload_del"
    /\ WriteCmd(Cmd("+DEL +", get_devicename(UploadPath(args))), TRUE,
                DeviceReplies, "upload_create")
    /\ Printed(<<"Uploading">>, <<>>)
    /\ UNCHANGED <<inc, args, dtr, fpos, uwc, model>>

UploadCreate ==
    /\ pc = "upload_create"
    /\ WriteCmd(Cmd("+FOW", get_devicename(UploadPath(args))), TRUE,
                DeviceReplies, "upload_open")
    /\ UNCHANGED <<inc, args, dtr, fpos, uwc, model, out>>

\* open(filepath, "rb"): FileNotFoundError when there is no .uwc file
UploadOpen ==
    /\ pc = "upload_open"
    /\ pc' = IF uwc THEN "upload_chunk" ELSE "crash"
    /\ fpos' = 0
    /\ UNCHANGED <<inc, args, dtr, tx, wire, last, io, uwc, model, out>>

\* one turn of the loop over chunks(f, 16)
UploadChunk ==
    /\ pc = "upload_chunk"
    /\ LET line == ReadChunk(args.data, fpos, ChunkLen)
       IN  IF Len(line) = 0
           THEN /\ pc' = "upload_close"
                /\ UNCHANGED <<tx, wire, last, io, fpos>>
           ELSE /\ WriteCmd(Cmd("+FWRH", HexRow(line)), TRUE, DeviceReplies,
                            "upload_chunk")
                /\ fpos' = fpos + Len(line)
    /\ UNCHANGED <<inc, args, dtr, uwc, model, out>>

UploadClose ==
    /\ pc = "upload_close"
    /\ WriteCmd(Cmd("+FCL", <<>>), TRUE, DeviceReplies, NextStage(args, 5))
    /\ Printed(<<>>, <<"Upload success">>)
    /\ UNCHANGED <<inc, args, dtr, fpos, uwc, model>>

----------------------------------------------------------------------------
(* run, lines 153-170.                                                     *)

\* RunProbe that does not read the reply of the probe
RunProbe_NoWait ==
    /\ pc = "run_probe"
    /\ WriteCmd(Cmd("", <<>>), FALSE, DeviceReplies, "run_command")
    /\ Printed(<<>>, <<"Running">>)
    /\ UNCHANGED <<inc, args, dtr, fpos, uwc, model>>

RunProbe ==
    /\ pc = "run_probe"
    /\ WriteCmd(Cmd("", <<>>), TRUE, DeviceReplies, "run_command")
    /\ Printed(<<>>, <<"Running">>)
    /\ UNCHANGED <<inc, args, dtr, fpos, uwc, model>>

RunCommand ==
    /\ pc = "run_command"
    /\ WriteCmd(Cmd("+RUN", get_devicename(args.path)), FALSE, DeviceReplies,
                "run_read")
    /\ UNCHANGED <<inc, args, dtr, fpos, uwc, model, out>>

\* what run prints for the bytes read(1024) returned, lines 159-170
RunScan(output) ==
    LET shown(kind, text) == [kind |-> kind, cmd |-> NoCmd, text |-> text,
                              desc |-> 0]
        crash == shown("Crash", output)
    IN  IF Len(output) = 0 THEN shown("RunNoOutput", <<>>)
        ELSE IF EndsWith(output, OKTerm)
        THEN IF Len(output) > 3 /\ ~IsUtf8(output) THEN crash
             ELSE shown("RunSuccess", SubSeq(output, 1, Len(output) - 3))
        ELSE IF Len(output) > 4 /\ Slice(output, 0, 4) = ErrPrefix
        THEN LET errorcode == SubSeq(output, 5, Len(output) - 1)
             IN  IF IsUtf8(From(output, 4)) /\ HexEvalOk(errorcode)
                 THEN [kind |-> "RunError", cmd |-> NoCmd,
                       text |-> errorcode, desc |-> get_errordesc(errorcode)]
                 ELSE crash
        ELSE IF output # <<LF, Ch0, Ch0>>
        THEN IF IsUtf8(output) THEN shown("RunImmediate", output) ELSE crash
        ELSE shown("RunIgnored", <<>>)

RunRead ==
    /\ pc = "run_read"
    /\ \E n \in 0..Min(Len(wire), 1024) :
         /\ wire' = From(wire, n)
         /\ last' = RunScan(Bytes(SubSeq(wire, 1, n)))
         /\ io' = [io EXCEPT !.got = SubSeq(wire, 1, n)]
    /\ pc' = IF last'.kind = "Crash" THEN "crash" ELSE NextStage(args, 6)
    /\ out' = IF last'.kind \in {"Crash", "RunIgnored"} THEN out
              ELSE Append(out, last'.kind)
    /\ UNCHANGED <<inc, args, dtr, tx, fpos, uwc, model>>

----------------------------------------------------------------------------
(* listen, lines 218-223: bytes are printed as they come until the user    *)
(* interrupts; a byte that is not ASCII makes decode() raise.  The bytes   *)
(* it prints are not kept in "out".                                        *)

Listen ==
    /\ pc = "listen"
    /\ args.port
    /\ \E b \in Alphabet : pc' = IF b < 128 THEN "listen" ELSE "crash"
    /\ UNCHANGED <<inc, args, dtr, tx, wire, last, io, fpos, uwc, model, out>>

ListenNoPort ==
    /\ pc = "listen"
    /\ ~args.port
    /\ pc' = "crash"
    /\ UNCHANGED <<inc, args, dtr, tx, wire, last, io, fpos, uwc, model, out>>

Interrupt ==
    /\ pc = "listen"
    /\ args.port
    /\ pc' = "done"
    /\ UNCHANGED <<inc, args, dtr, tx, wire, last, io, fpos, uwc, model, out>>

----------------------------------------------------------------------------
(* The driver: every invocation, the module answering from DeviceReplies.  *)

Next ==
    \/ TestWine
    \/ Construct
    \/ Reset
    \/ SetModel
    \/ DetectModel
    \/ DetectRevision
    \/ Announce
    \/ List(DeviceReplies)
    \/ Delete(DeviceReplies)
    \/ At(DeviceReplies)
    \/ FormatClear
    \/ FormatProbe
    \/ FormatReset
    \/ FormatDrain
    \/ FormatReprobe
    \/ Compile
    \/ OnlineDevices
    \/ OnlineModel
    \/ OnlineFirmware
    \/ OnlineLookup
    \/ OnlineInclude(DriverDocs, DriverFileSets)
    \/ OnlinePost
    \/ UploadDelete
    \/ UploadCreate
    \/ UploadOpen
    \/ UploadChunk
    \/ UploadClose
    \/ RunProbe
    \/ RunCommand
    \/ RunRead
    \/ Listen
    \/ ListenNoPort
    \/ Interrupt

Spec == Init /\ [][Next]_vars

(* The reader: one command that expects a reply (list, delete or raw AT)   *)
(* with the module answering any reply of AllReplies.                      *)

InitReader ==
    /\ InitWith({"ls", "rm", "at"}, {})
    /\ args.port
    /\ args.no_dtr

NextReader ==
    \/ TestWine
    \/ Construct
    \/ Reset
    \/ SetModel
    \/ Announce
    \/ List(AllReplies)
    \/ Delete(AllReplies)
    \/ At(AllReplies)

SpecReader == InitReader /\ [][NextReader]_vars

(* The upload: load of an existing a.uwc of every length up to MaxFileLen. *)

InitUpload ==
    /\ InitWith({"load"}, AllFiles)
    /\ args.port
    /\ args.no_dtr
    /\ args.path = <<ChA>> \o ExtUwc
    /\ uwc

NextUpload ==
    \/ TestWine
    \/ Construct
    \/ Reset
    \/ SetModel
    \/ Announce
    \/ UploadDelete
    \/ UploadCreate
    \/ UploadOpen
    \/ UploadChunk
    \/ UploadClose

SpecUpload == InitUpload /\ [][NextUpload]_vars

(* The names: delete of a file whose path is any of NamePaths.            *)

\* characters of paths: a letter, the dot, the separator, two reserved ones
NameAlphabet == {ChA, DOT, SLASH, COLON, QUOTE}

\* n letters
Letters(n) == [i \in 1..n |-> ChA]

\* paths: a short free part, a stem of 0, 23 or 25 letters, a free character
NamePaths ==
    {pre \o mid \o suf : pre \in SeqsUpTo(NameAlphabet, MaxName),
                         mid \in {Letters(0), Letters(NameCap - 1),
                                  Letters(NameCap + 1)},
                         suf \in SeqsUpTo(NameAlphabet, 1)} \ {<<>>}

InitName ==
    /\ args \in [op : {"rm"}, path : NamePaths, data : {<<>>},
                 no_dtr : {TRUE}, port : {TRUE}]
    /\ pc = "test_wine"
    /\ dtr = <<>>
    /\ tx = <<>>
    /\ wire = <<>>
    /\ last = NoResult
    /\ io = NoIo
    /\ fpos = 0
    /\ uwc = TRUE
    /\ model = FALSE
    /\ out = <<>>
    /\ inc = NoInc

NextName ==
    \/ TestWine
    \/ Construct
    \/ Reset
    \/ SetModel
    \/ Announce
    \/ Delete(DeviceReplies)

SpecName == InitName /\ [][NextName]_vars

(* The includes: the online compile of a.sb, the module identified and its *)
(* model and firmware read, every command answered "\n00\r" in time, and   *)
(* the module found in devices.json; the source is any document of Docs    *)
(* beside any files of FileSets.                                           *)

InitInclude ==
    /\ args = [op |-> "compile", path |-> NameA \o ExtSb, data |-> <<>>,
               no_dtr |-> TRUE, port |-> TRUE]
    /\ pc = "online_include"
    /\ dtr = <<>>
    /\ tx = [i \in 1..4 |->
               [cmd |-> Cmd(<<"I 0", "I 13", "I 0", "I 3">>[i], <<>>),
                expect |-> TRUE]]
    /\ wire = <<>>
    /\ last = [kind |-> "Success", cmd |-> NoCmd, text |-> <<>>, desc |-> 0]
    /\ io = [reply |-> <<LF>> \o OKTerm, got |-> Tag(<<LF>> \o OKTerm, 4),
             residue |-> <<>>]
    /\ fpos = 0
    /\ uwc = TRUE
    /\ model = TRUE
    /\ out = <<"Detected model", "Performing compile",
               "Using the online compiler">>
    /\ inc = NoInc

NextInclude ==
    \/ OnlineInclude(Docs, FileSets)
    \/ OnlinePost

SpecInclude == InitInclude /\ [][NextInclude]_vars

----------------------------------------------------------------------------
(* Properties of the response reader, checked under SpecReader.            *)

\* the latest port write was a command whose reply writecmd has read
Answered == /\ tx # <<>>
            /\ tx[Len(tx)].expect
            /\ last.kind \in Failures \cup {"Success", "Crash"}

\* the bytes writecmd accumulated for the latest command
Response == Bytes(io.got)

\* the read loop was not cut short by the deadline: it read a terminator
\* or everything there was
ReadInFull == EndsWith(Response, OKTerm) \/ wire = <<>>

\* C1: every reply R that ends in "00\r" and arrives in full in time makes
\* writecmd return Success with the payload R[:-3], stripped.
C1_PayloadIsWholeReply ==
    (/\ Answered
     /\ io.residue = <<>>
     /\ EndsWith(io.reply, OKTerm)
     /\ ReadInFull)
    => /\ last.kind = "Success"
       /\ last.text = Strip(SubSeq(io.reply, 1, Len(io.reply) - 3))

\* C2: every accumulated response longer than 4 bytes that starts with
\* "\n01\t" and does not end in "00\r" raises DeviceError, with the bytes
\* between the prefix and the last byte as its code.
C2_ErrorPrefixIsDeviceError ==
    (/\ Answered
     /\ Len(Response) > 4
     /\ StartsWith(Response, ErrPrefix)
     /\ ~EndsWith(Response, OKTerm))
    => /\ last.kind = "DeviceError"
       /\ last.text = SubSeq(Response, 5, Len(Response) - 1)

\* an error reply of the wire format: "\n01\t", error-code text, CR
IsErrorReply(r) == /\ Len(r) > 4
                   /\ StartsWith(r, ErrPrefix)
                   /\ r[Len(r)] = CR

\* C3: every error reply "\n01\t" code "\r", whatever its code, raises
\* DeviceError with that code, and is never Success, Malformed or NoResponse.
C3_ErrorReplyIsDeviceError ==
    (/\ Answered
     /\ io.residue = <<>>
     /\ IsErrorReply(io.reply)
     /\ ReadInFull)
    => /\ last.kind = "DeviceError"
       /\ last.text = SubSeq(io.reply, 5, Len(io.reply) - 1)

\* C4: when the deadline passes with no byte read, writecmd raises
\* NoResponse, naming the command; never another outcome.
C4_EmptyIsNoResponse ==
    (Answered /\ Response = <<>>)
    => /\ last.kind = "NoResponse"
       /\ last.cmd = tx[Len(tx)].cmd
       /\ pc = "exit2"

\* the module did answer, but not a byte of it was read in time
C4_Witness == /\ Answered
              /\ Response = <<>>
              /\ io.reply # <<>>
              /\ last.kind = "NoResponse"

----------------------------------------------------------------------------
(* Properties of upload.                                                   *)

IsUploadFrame(f) == f.cmd.verb \in {"+DEL +", "+FOW", "+FWRH", "+FCL"}

\* the frames upload has written, in order
UploadFrames == SelectSeq(tx, IsUploadFrame)

\* upload has printed "Upload success"
UploadSucceeded == \E i \in 1..Len(out) : out[i] = "Upload success"

IsWriteFrame(f) == f.cmd.verb = "+FWRH"

\* the hex rows of the chunk writes, in order
Rows == [i \in 1..Len(SelectSeq(tx, IsWriteFrame)) |->
           SelectSeq(tx, IsWriteFrame)[i].cmd.arg]

\* C5: a successful upload has written, one after the other, the delete of
\* the remote name, the create of the same name, the chunk writes in file
\* order and the close; in every state the frames of upload are a
\* beginning of that sequence.
C5_UploadOrder ==
    LET u == UploadFrames
        name == get_devicename(UploadPath(args))
        frame(c) == [cmd |-> c, expect |-> TRUE]
        row(j) == HexRow(Slice(args.data, ChunkLen * (j - 1), ChunkLen * j))
        closed == u # <<>> /\ u[Len(u)].cmd.verb = "+FCL"
        writes == IF closed THEN Len(u) - 3 ELSE Len(u) - 2
    IN  /\ Len(u) >= 1 => u[1] = frame(Cmd("+DEL +", name))
        /\ Len(u) >= 2 => u[2] = frame(Cmd("+FOW", name))
        /\ \A j \in 1..writes : u[2 + j] = frame(Cmd("+FWRH", row(j)))
        /\ closed => Len(u) >= 3 /\ u[Len(u)] = frame(Cmd("+FCL", <<>>))
        /\ \E d \in 0..Len(tx) : SubSeq(tx, d + 1, d + Len(u)) = u
        /\ UploadSucceeded => closed /\ ChunkLen * writes >= Len(args.data)

\* the upload of the 20 byte file succeeded: two chunk writes
C5_Witness == /\ UploadSucceeded
              /\ Len(args.data) = ChunkLen + 4
              /\ Len(UploadFrames) = 5

\* the bytes a hex text stands for
RECURSIVE HexDecode(_)
HexDecode(t) ==
    IF Len(t) < 2 THEN <<>>
    ELSE <<16 * HexDigitValue(t[1]) + HexDigitValue(t[2])>>
         \o HexDecode(SubSeq(t, 3, Len(t)))

RECURSIVE Concat(_)
Concat(ss) == IF ss = <<>> THEN <<>> ELSE Head(ss) \o Concat(Tail(ss))

\* C6: a successful upload of N bytes has written ceil(N/16) chunks (none
\* for N = 0, with one delete, one create and one close all the same);
\* every chunk but the last has 16 bytes, the chunks together are the file,
\* and a chunk of k bytes is written as 2k hex digits.
C6_UploadChunking ==
    UploadSucceeded =>
      LET N == Len(args.data)
          count == Len(Rows)
      IN  /\ count = (N + ChunkLen - 1) \div ChunkLen
          /\ Len(UploadFrames) = count + 3
          /\ \A j \in 1..(count - 1) : Len(Rows[j]) = 2 * ChunkLen
          /\ count > 0 => Len(Rows[count]) = 2 * (N - ChunkLen * (count - 1))
          /\ \A j \in 1..count : \A i \in 1..Len(Rows[j]) :
               IsHexDigit(Rows[j][i])
          /\ HexDecode(Concat(Rows)) = args.data

\* a file of two full chunks and one byte was uploaded
C6_Witness == /\ UploadSucceeded
              /\ Len(args.data) = 2 * ChunkLen + 1
              /\ Len(Rows) = 3

----------------------------------------------------------------------------
(* Properties of the driver.                                               *)

\* C7: once a command that expects a reply has failed, nothing more is
\* written to the port, nothing more is done: the failed command is not
\* sent again and no later step is taken.
C7_FailureHalts ==
    /\ [](last.kind \in Failures => pc = "exit2")
    /\ [][last.kind \in Failures => tx' = tx /\ pc' = pc]_vars

\* a chunk write failed with chunks left to send
C7_Witness == /\ last.kind \in Failures
              /\ pc = "exit2"
              /\ tx[Len(tx)].cmd.verb = "+FWRH"
              /\ fpos < Len(args.data)

\* the latest frame written is upload's delete
DeleteStepAnswered == /\ tx # <<>>
                      /\ tx[Len(tx)].cmd.verb = "+DEL +"
                      /\ last.kind # "None"

\* C8, as claimed: a DeviceError of upload's delete step is ignored and
\* upload goes on to create the file.
C8_DeleteErrorIgnored ==
    (DeleteStepAnswered /\ last.kind = "DeviceError")
    => pc = "upload_create"

\* C8, amended: every failure of upload's delete step, a DeviceError like
\* any other, ends the invocation: no create, write or close follows.
C8_DeleteErrorAborts ==
    /\ (DeleteStepAnswered /\ last.kind \in Failures) => pc = "exit2"
    /\ (\E i \in 1..Len(tx) : tx[i].cmd.verb = "+FOW")
       => ~(DeleteStepAnswered /\ last.kind \in Failures)
    /\ pc = "upload_create" => last.kind = "Success"

\* the module rejected upload's delete
C8_Witness == /\ DeleteStepAnswered
              /\ last.kind = "DeviceError"
              /\ pc = "exit2"

\* C9: no frame is written while bytes sent in reply to an earlier command
\* are unread, and the bytes read as the reply to a command are all bytes
\* the module sent in reply to that command.
C9_OneOutstanding ==
    /\ io.residue = <<>>
    /\ Sources(io.got) \subseteq {Len(tx)}

\* the frames of format: clear, probe, factory reset (no reply read), probe
FormatFrames == <<[cmd |-> Cmd("Z", <<>>), expect |-> TRUE],
                  [cmd |-> Cmd("", <<>>), expect |-> TRUE],
                  [cmd |-> Cmd("&F 1", <<>>), expect |-> FALSE],
                  [cmd |-> Cmd("", <<>>), expect |-> TRUE]>>

\* C10, as claimed: format fails only at its final re-probe.
C10_OnlyReprobeFails ==
    (args.op = "format" /\ pc = "exit2") => Len(tx) = 4

\* C10, amended: format fails when the clear command, the empty command
\* after it or the final re-probe is not answered with Success, and then
\* no later step is issued; only the factory reset is written without
\* reading a reply, so it never fails and is always followed by the
\* re-probe.
C10_FormatFailures ==
    args.op = "format" =>
      /\ Len(tx) <= 4
      /\ tx = SubSeq(FormatFrames, 1, Len(tx))
      /\ pc = "exit2" => last.kind \in Failures /\ Len(tx) \in {1, 2, 4}
      /\ (Len(tx) \in {1, 2, 4} /\ last.kind \in Failures) => pc = "exit2"
      /\ Len(tx) = 3 => pc \in {"format_drain", "format_reprobe"}

\* format failed at the clear command: the module rejected it
C10_Witness == /\ args.op = "format"
               /\ pc = "exit2"
               /\ Len(tx) = 1
               /\ last.kind = "DeviceError"

----------------------------------------------------------------------------
(* Properties of run.                                                      *)

\* the frame of the empty probe command, whose reply is read
ProbeFrame == [cmd |-> Cmd("", <<>>), expect |-> TRUE]

IsRunFrame(f) == f.cmd.verb = "+RUN"

\* this step writes the +RUN frame
WritesRun == /\ Len(tx') = Len(tx) + 1
             /\ IsRunFrame(tx'[Len(tx')])

\* C11: run writes the empty probe and reads its reply before the run
\* command: the +RUN frame is written only right after the probe returned
\* Success, and after a failed probe it is never written.
C11_ProbeBeforeRun ==
    /\ [](\A i \in 1..Len(tx) : IsRunFrame(tx[i]) => /\ i > 1
                                                     /\ tx[i - 1] = ProbeFrame
                                                     /\ ~tx[i].expect)
    /\ []((/\ args.op = "run"
           /\ tx # <<>>
           /\ tx[Len(tx)] = ProbeFrame
           /\ last.kind \in Failures) => pc = "exit2")
    /\ [][WritesRun => /\ tx # <<>>
                       /\ tx[Len(tx)] = ProbeFrame
                       /\ last.kind = "Success"]_vars

\* the probe was answered and the run command has been written
C11_Witness == /\ pc = "run_read"
               /\ IsRunFrame(tx[Len(tx)])
               /\ tx[Len(tx) - 1] = ProbeFrame

\* run has read what came back after the +RUN frame
RunHasRead == /\ tx # <<>>
              /\ IsRunFrame(tx[Len(tx)])
              /\ pc # "run_read"

\* the bytes read(1024) returned to run
RunOutput == Bytes(io.got)

\* C12: whatever bytes run reads back after the +RUN frame, it finishes and
\* reports one outcome: success with the leading bytes for bytes that end
\* in "00\r"; else the error code for more than 4 bytes that start with
\* "\n01\t"; else nothing for "\n00"; else the bytes as immediate output;
\* and "no immediate output" for no bytes.
C12_RunReportsOutcome ==
    RunHasRead =>
      LET output == RunOutput
      IN  /\ pc \notin {"exit2", "crash"}
          /\ last.kind =
               (IF output = <<>> THEN "RunNoOutput"
                ELSE IF EndsWith(output, OKTerm) THEN "RunSuccess"
                ELSE IF Len(output) > 4 /\ StartsWith(output, ErrPrefix)
                THEN "RunError"
                ELSE IF output = <<LF, Ch0, Ch0>> THEN "RunIgnored"
                ELSE "RunImmediate")
          /\ last.kind = "RunSuccess"
               => last.text = SubSeq(output, 1, Len(output) - 3)
          /\ last.kind = "RunError"
               => last.text = SubSeq(output, 5, Len(output) - 1)
          /\ last.kind = "RunImmediate" => last.text = output

----------------------------------------------------------------------------
(* Properties of main: chaining, reset, identification.                    *)

\* the places of main inside compile, upload and run
CompilePcs == {"compile", "online_devices", "online_model",
               "online_firmware", "online_lookup", "online_include",
               "online_post"}

UploadPcs == {"upload_del", "upload_create", "upload_open", "upload_chunk",
              "upload_close"}

RunPcs == {"run_probe", "run_command", "run_read"}

\* the extension of the file named on the command line
Ext == splitext(args.path)[2]

\* what an invocation is to perform
PlanCompile == \/ args.op = "compile"
               \/ args.op \in {"load", "run"} /\ Ext = ExtSb

PlanLoad == \/ args.op = "load"
            \/ args.op = "run" /\ Ext \in {ExtSb, ExtUwc}

PlanRun == args.op = "run"

\* the stage a frame belongs to: 1 identify and compile, 2 upload, 3 run
StageOfFrame(f) ==
    IF f.cmd.verb \in {"I 0", "I 13", "I 3"} THEN 1
    ELSE IF IsUploadFrame(f) THEN 2
    ELSE 3

\* this step leaves compile, with the compiled file written
CompileCompletes == pc \in {"compile", "online_post"} /\ uwc'

\* this step leaves upload, its close command answered with Success
UploadCompletes == /\ pc = "upload_close"
                   /\ last'.kind = "Success"
                   /\ tx'[Len(tx')].cmd.verb = "+FCL"

\* C13: run of a .sb file compiles, uploads and runs; run of a .uwc file
\* uploads and runs; load of a .sb file compiles and uploads; load of a
\* .uwc file only uploads.  Compile completes before the first upload
\* command, upload's close completes before the run probe, and a stage
\* starts only when every stage before it succeeded.
C13_Chaining ==
    /\ [](/\ pc \in CompilePcs => PlanCompile
          /\ pc \in UploadPcs => PlanLoad
          /\ pc \in RunPcs => PlanRun)
    /\ [](args.op \in {"compile", "load", "run"} =>
            \A i, j \in 1..Len(tx) :
               i < j => StageOfFrame(tx[i]) <= StageOfFrame(tx[j]))
    /\ [][(pc \notin CompilePcs /\ pc' \in CompilePcs)
            => /\ pc' = "compile"
               /\ pc = "announce"]_vars
    /\ [][(pc \notin UploadPcs /\ pc' \in UploadPcs)
            => /\ pc' = "upload_del"
               /\ IF PlanCompile THEN CompileCompletes
                  ELSE pc = "announce"]_vars
    /\ [][(pc \notin RunPcs /\ pc' \in RunPcs)
            => /\ pc' = "run_probe"
               /\ IF PlanLoad THEN UploadCompletes
                  ELSE pc = "announce"]_vars
    /\ [][(/\ pc # "done"
           /\ pc' = "done"
           /\ args.op \in {"compile", "load", "run"})
            => IF PlanRun THEN pc = "run_read"
               ELSE IF PlanLoad THEN UploadCompletes
               ELSE CompileCompletes]_vars

\* run of a.sb went through compile, upload and run
C13_Witness == /\ pc = "done"
               /\ args.op = "run"
               /\ Ext = ExtSb
               /\ \E i \in 1..Len(tx) : tx[i].cmd.verb = "I 13"
               /\ UploadSucceeded
               /\ last.kind = "RunSuccess"

\* the operations the reset is made for
Stateful == args.op \in {"ls", "rm", "format", "load", "run"}

\* C14: when list, delete, format, load or run is performed and --no-dtr
\* is absent, the reset line was driven low and then high, once, before the
\* first command frame was written; with --no-dtr the line is never driven
\* and main goes on to its commands all the same.
C14_ResetFirst ==
    /\ [](dtr \in {<<>>, <<FALSE, TRUE>>})
    /\ []((Stateful /\ ~args.no_dtr /\ tx # <<>>) => dtr = <<FALSE, TRUE>>)
    /\ [](args.no_dtr => dtr = <<>>)
    /\ [][dtr' # dtr => tx' = <<>> /\ pc = "reset"]_vars
    /\ [][(pc = "reset" /\ args.no_dtr) => pc' = "model"]_vars

\* format has written its frames after the reset pulse
C14_Witness == /\ args.op = "format"
               /\ ~args.no_dtr
               /\ dtr = <<FALSE, TRUE>>
               /\ Len(tx) = 4

\* the two reads of detect_model
ModelRead == [cmd |-> Cmd("I 0", <<>>), expect |-> TRUE]

RevisionRead == [cmd |-> Cmd("I 13", <<>>), expect |-> TRUE]

\* C20: compile starts only with the model identifier set.  When -m does
\* not give it, the module is identified after the reset and before
\* compile: the model is read, then the revision, and the identifier is
\* set only when both reads returned Success; after a read that did not,
\* the revision is not read and nothing of compile, upload or run is done.
C20_IdentifyBeforeCompile ==
    /\ [](pc \in CompilePcs => model)
    /\ []((model /\ args.port) => /\ Len(tx) >= 2
                                  /\ tx[1] = ModelRead
                                  /\ tx[2] = RevisionRead)
    /\ []((PlanCompile /\ args.port /\ ~model)
            => /\ pc \notin CompilePcs \cup UploadPcs \cup RunPcs \cup {"done"}
               /\ Len(tx) <= 2)
    /\ [][(pc = "detect_model" /\ tx' # tx)
            => /\ tx = <<>>
               /\ tx' = <<ModelRead>>
               /\ args.no_dtr \/ dtr = <<FALSE, TRUE>>]_vars
    /\ [][(pc = "detect_revision" /\ tx' # tx)
            => /\ last.kind = "Success"
               /\ tx' = <<ModelRead, RevisionRead>>]_vars
    /\ [][(~model /\ model' /\ args.port)
            => /\ pc = "detect_revision"
               /\ last'.kind = "Success"
               /\ tx' = <<ModelRead, RevisionRead>>]_vars

\* the module was identified and compile is about to start
C20_Witness == /\ pc = "compile"
               /\ args.port
               /\ model
               /\ tx = <<ModelRead, RevisionRead>>

----------------------------------------------------------------------------
(* Properties of the protocol errors, checked under SpecReader.            *)

\* the command of the latest frame
FailedCommand == tx[Len(tx)].cmd

\* C15, as claimed: every protocol error, DeviceError included, carries
\* the text of the command that failed.
C15_ErrorNamesCommand ==
    (Answered /\ last.kind \in Failures) => last.cmd = FailedCommand

\* C15, amended: NoResponse carries the command and nothing else, Malformed
\* carries the command and the raw response bytes, DeviceError carries the
\* error code and its description and not the command.
C15_ErrorContents ==
    (Answered /\ last.kind \in Failures) =>
      /\ last.kind = "NoResponse" => /\ last.cmd = FailedCommand
                                     /\ last.text = <<>>
                                     /\ Response = <<>>
      /\ last.kind = "Malformed" => /\ last.cmd = FailedCommand
                                    /\ last.text = Response
                                    /\ Response # <<>>
      /\ last.kind = "DeviceError" =>
           /\ last.cmd = NoCmd
           /\ last.text = SubSeq(Response, 5, Len(Response) - 1)
           /\ last.desc = get_errordesc(last.text)

\* the module rejected delete with error code 10
C15_Witness == /\ Answered
               /\ last.kind = "DeviceError"
               /\ FailedCommand.verb = "+DEL"
               /\ last.text = <<Ch1, Ch0>>
               /\ last.desc = 16

----------------------------------------------------------------------------
(* Properties of get_devicename, checked under SpecName.                   *)

\* the remote names written in delete frames
DeletedNames == {tx[i].cmd.arg : i \in {k \in 1..Len(tx) :
                                          tx[k].cmd.verb = "+DEL"}}

\* C16: the remote name of every path has at most 24 characters, none of
\* them one of : * ? " < > |, and get_devicename maps it to itself.
C16_DeviceName ==
    \A name \in DeletedNames :
       /\ Len(name) <= 24
       /\ \A k \in 1..Len(name) : name[k] \notin {58, 42, 63, 34, 60, 62, 124}
       /\ get_devicename(name) = name

\* a path of more than 24 characters with a reserved character, a
\* directory and an extension was cut to a name of 24
C16_Witness == /\ DeletedNames # {}
               /\ Len(args.path) > NameCap
               /\ args.path[1] = QUOTE
               /\ args.path[2] = SLASH
               /\ args.path[Len(args.path)] = DOT
               /\ \A name \in DeletedNames : Len(name) = NameCap

----------------------------------------------------------------------------
(* Properties of do_include, checked under SpecInclude.                    *)

\* do_include has been called
Included == inc.ret.status # "none"

\* the targets of the directive lines of a text
Targets(file) == {MatchAt(file, i).group :
                    i \in {k \in 0..Len(file) : MatchAt(file, k) # NoMatch}}

\* every include target of the document and of the files exists
TargetsExist ==
    /\ Targets(inc.file) \subseteq DOMAIN inc.files
    /\ \A n \in DOMAIN inc.files :
         Targets(inc.files[n]) \subseteq DOMAIN inc.files

\* the marker occurs in a text
HasMarker(file) ==
    \E i \in 0..Len(file) : Slice(file, i, i + Len(Marker)) = Marker

\* C17: when every include target exists, the document do_include returns
\* has no directive line and the text '#include' nowhere, also when the
\* source has the text only where no directive is.
C17_NoMarkerLeft ==
    (Included /\ TargetsExist /\ inc.ret.status = "ok")
    => /\ Search(inc.ret.doc) = NoMatch
       /\ ~HasMarker(inc.ret.doc)

\* C18: a document without a directive line is returned as it is, and no
\* file is opened.
C18_NoDirectiveUnchanged ==
    (Included /\ Targets(inc.file) = {})
    => /\ inc.ret.status = "ok"
       /\ inc.ret.doc = inc.file
       /\ inc.ret.reads = <<>>

\* a document of two lines that has the marker text and no directive
C18_Witness == /\ Included
               /\ inc.file = MarkedLine \o <<LF>> \o GluedLine
               /\ inc.ret.doc = inc.file
               /\ inc.files[NameA] = IncludeLine(NameA)

\* the places of the directive lines of a text
Directives(file) == {k \in 0..Len(file) : MatchAt(file, k) # NoMatch}

\* C19: when every include target exists, whatever includes what,
\* do_include returns, and the file of every directive of the document,
\* not of the first only, has been opened for it.
C19_IncludeTerminates ==
    (Included /\ TargetsExist)
    => /\ inc.ret.status = "ok"
       /\ \A t \in Targets(inc.file) :
            \E i \in 1..Len(inc.ret.reads) : inc.ret.reads[i] = t
       /\ Len(inc.ret.reads) >= Cardinality(Directives(inc.file))

=============================================================================
